---- MODULE Spec2Model ----
(***************************************************************************)
(* A model of the riscv-harmony simulator core: the Processor of           *)
(* src/src/lib.rs (33 register slots, one operation per RV32I mnemonic)    *)
(* and the slab-backed Memory of src/src/memory.rs.                        *)
(*                                                                         *)
(* A u32 is the pair <<hi, lo>> of its two 16-bit halves, so that every    *)
(* 32-bit pattern (0xdeadbeef, 0xFFFFFFFC, ...) is a value of the model    *)
(* and the arithmetic below is the code's arithmetic modulo 2^32.          *)
(***************************************************************************)
EXTENDS Integers, Sequences, FiniteSets, TLC

VARIABLES
    registers,        \* Processor.registers: [0..32 -> u32]
    slabs,            \* Memory.slabs: a function from slab keys to 1024 bytes
    overflow_checks,  \* the build profile: TRUE when integer overflow panics
    panicked,         \* TRUE once an operation has panicked (the run is over)
    last,             \* the last Processor operation, its operands and the registers before it
    prev,             \* the Processor operation before the last, where the exploration keeps it
    mlast,            \* the last Memory operation, its operands, its result and the slabs before it
    written,          \* the addresses set_byte has stored to so far
    zero_writes,      \* operations so far whose destination was register 0
    steps             \* operations performed so far

vars == <<registers, slabs, overflow_checks, panicked, last, prev, mlast,
          written, zero_writes, steps>>

(***************************************************************************)
(* Bounds of the exploration.                                              *)
(***************************************************************************)
MaxSteps == 2
MaxJumpSteps == 2
MaxShiftSteps == 3
MaxMemSteps == 2
MaxAddiSteps == 3
MaxSeqSteps == 3
MaxImmSteps == 2

(***************************************************************************)
(* 32-bit values.                                                          *)
(***************************************************************************)
H == 2^16

U32(hi, lo) == <<hi, lo>>
Hi(x) == x[1]
Lo(x) == x[2]
Zero == U32(0, 0)
One == U32(0, 1)
Four == U32(0, 4)

\* u32::overflowing_add: the wrapped sum and whether it overflowed
overflowing_add(a, b) ==
    LET lo == Lo(a) + Lo(b)
        hi == Hi(a) + Hi(b) + (lo \div H)
    IN  [value |-> U32(hi % H, lo % H), overflow |-> hi >= H]

wrapping_add(a, b) == overflowing_add(a, b).value

\* u32::overflowing_sub / wrapping_sub
overflowing_sub(a, b) ==
    LET lo == Lo(a) - Lo(b)
        borrow == IF lo < 0 THEN 1 ELSE 0
        hi == Hi(a) - Hi(b) - borrow
    IN  [value |-> U32(hi % H, lo % H), overflow |-> hi < 0]

wrapping_sub(a, b) == overflowing_sub(a, b).value

\* u32 `<` (unsigned comparison)
LtU(a, b) == Hi(a) < Hi(b) \/ (Hi(a) = Hi(b) /\ Lo(a) < Lo(b))

\* i32::is_negative of `x as i32`
is_negative(x) == Hi(x) >= 2^15

\* `(a as i32) < (b as i32)` (signed comparison)
LtS(a, b) ==
    IF is_negative(a) # is_negative(b) THEN is_negative(a) ELSE LtU(a, b)

\* bool as u32
BoolU32(b) == IF b THEN One ELSE Zero

RECURSIVE Bits16(_, _, _, _)
\* the bitwise operation op ("and", "or", "xor") on the low n bits of a and b
Bits16(op, a, b, n) ==
    IF n = 0 THEN 0
    ELSE LET x == a % 2
             y == b % 2
             z == CASE op = "and" -> (IF x = 1 /\ y = 1 THEN 1 ELSE 0)
                    [] op = "or"  -> (IF x = 1 \/ y = 1 THEN 1 ELSE 0)
                    [] op = "xor" -> (IF x # y THEN 1 ELSE 0)
         IN  z + 2 * Bits16(op, a \div 2, b \div 2, n - 1)

BitAnd(a, b) == U32(Bits16("and", Hi(a), Hi(b), 16), Bits16("and", Lo(a), Lo(b), 16))
BitOr(a, b)  == U32(Bits16("or", Hi(a), Hi(b), 16), Bits16("or", Lo(a), Lo(b), 16))
BitXor(a, b) == U32(Bits16("xor", Hi(a), Hi(b), 16), Bits16("xor", Lo(a), Lo(b), 16))
BitNot(a) == U32(H - 1 - Hi(a), H - 1 - Lo(a))

\* u32 `<<` by n in 0..31 (bits shifted out are lost)
ShlBits(a, n) ==
    IF n >= 16 THEN U32((Lo(a) % 2^(32 - n)) * 2^(n - 16), 0)
    ELSE U32((Hi(a) % 2^(16 - n)) * 2^n + (Lo(a) \div 2^(16 - n)),
             (Lo(a) % 2^(16 - n)) * 2^n)

\* u32 `>>` by n in 0..31 (zeroes shifted in)
ShrBits(a, n) ==
    IF n >= 16 THEN U32(0, Hi(a) \div 2^(n - 16))
    ELSE U32(Hi(a) \div 2^n,
             (Hi(a) % 2^n) * 2^(16 - n) + (Lo(a) \div 2^n))

\* i32 `>>` by n in 0..31 (the sign bit shifted in)
SarBits(a, n) ==
    IF is_negative(a) THEN BitNot(ShrBits(BitNot(a), n)) ELSE ShrBits(a, n)

\* The shift operators of the language on a u32 amount: an amount of 32 or
\* more panics when overflow checks are on and is masked to 5 bits otherwise.
ShiftOverflows(amount) == Hi(amount) # 0 \/ Lo(amount) >= 32
ShiftMasked(amount) == Lo(amount) % 32

(***************************************************************************)
(* Processor (src/src/lib.rs).                                             *)
(***************************************************************************)
pc == 32

\* Processor::new
new == [r \in 0..32 |-> Zero]

get(regs, reg) == IF reg = 0 THEN Zero ELSE regs[reg]

\* set without the register-0 case
set_any_slot(regs, reg, val) == [regs EXCEPT ![reg] = val]

set(regs, reg, val) == IF reg = 0 THEN regs ELSE [regs EXCEPT ![reg] = val]

\* How an operation ends: it returns with the registers it leaves, or it panics
\* (an overflow check of the build failed) and leaves them as they were.
Done(regs) == [panic |-> FALSE, registers |-> regs]
Panic(regs) == [panic |-> TRUE, registers |-> regs]

\* `(-(right as i64)) as u32` for a negative right: its magnitude 2^32 - right
NegMagnitude(right) ==
    LET lo == (H - Lo(right)) % H
        borrow == IF Lo(right) = 0 THEN 0 ELSE 1
    IN  U32((H - Hi(right) - borrow) % H, lo)

\* unsigned_signed_add subtracting the offset's bits instead of its magnitude
unsigned_signed_add_no_negate(left, right) ==
    IF is_negative(right)
    THEN wrapping_sub(left, right)
    ELSE wrapping_add(left, right)

unsigned_signed_add(left, right) ==
    IF is_negative(right)
    THEN wrapping_sub(left, NegMagnitude(right))
    ELSE wrapping_add(left, right)

sign_extend(imm) ==
    LET bit11 == (Lo(imm) \div 2^11) % 2
    IN  BitOr(imm, IF bit11 = 1 THEN U32(H - 1, H - 2^11) ELSE Zero)

\* addi clamping its sum at 0xFFFFFFFF instead of wrapping
addi_saturating(regs, rd, rs1, imm) ==
    LET sum == overflowing_add(get(regs, rs1), imm)
    IN  Done(set(regs, rd, IF sum.overflow THEN U32(H - 1, H - 1) ELSE sum.value))

addi(regs, rd, rs1, imm) ==
    Done(set(regs, rd, wrapping_add(get(regs, rs1), imm)))

\* slti comparing its operands as unsigned numbers
slti_unsigned(regs, rd, rs1, imm) ==
    Done(set(regs, rd, IF LtU(get(regs, rs1), imm) THEN One ELSE Zero))

slti(regs, rd, rs1, imm) ==
    Done(set(regs, rd, IF LtS(get(regs, rs1), imm) THEN One ELSE Zero))

\* sltiu comparing its operands as signed numbers on the general path
sltiu_signed(regs, rd, rs1, imm) ==
    LET rs1_val == get(regs, rs1)
    IN  IF imm = One
        THEN Done(set(regs, rd, BoolU32(rs1_val = Zero)))
        ELSE Done(set(regs, rd, BoolU32(LtS(rs1_val, imm))))

sltiu(regs, rd, rs1, imm) ==
    LET rs1_val == get(regs, rs1)
    IN  IF imm = One
        THEN Done(set(regs, rd, BoolU32(rs1_val = Zero)))
        ELSE Done(set(regs, rd, BoolU32(LtU(rs1_val, imm))))

andi(regs, rd, rs1, imm) == Done(set(regs, rd, BitAnd(get(regs, rs1), imm)))

ori(regs, rd, rs1, imm) == Done(set(regs, rd, BitOr(get(regs, rs1), imm)))

xori(regs, rd, rs1, imm) == Done(set(regs, rd, BitXor(get(regs, rs1), imm)))

slli(regs, checks, rd, rs1, imm) ==
    IF checks /\ ShiftOverflows(imm) THEN Panic(regs)
    ELSE Done(set(regs, rd, ShlBits(get(regs, rs1), ShiftMasked(imm))))

srli(regs, checks, rd, rs1, imm) ==
    IF checks /\ ShiftOverflows(imm) THEN Panic(regs)
    ELSE Done(set(regs, rd, ShrBits(get(regs, rs1), ShiftMasked(imm))))

srai(regs, checks, rd, rs1, imm) ==
    IF checks /\ ShiftOverflows(imm) THEN Panic(regs)
    ELSE Done(set(regs, rd, SarBits(get(regs, rs1), ShiftMasked(imm))))

lui(regs, rd, imm) == Done(set(regs, rd, ShlBits(imm, 12)))

auipc(regs, rd, imm) ==
    Done(set(regs, rd, overflowing_add(ShlBits(imm, 12), get(regs, pc)).value))

\* add moving pc on by 4 as well
add_advancing_pc(regs, rd, rs1, rs2) ==
    Done(set(set(regs, rd, overflowing_add(get(regs, rs1), get(regs, rs2)).value),
             pc, wrapping_add(get(regs, pc), Four)))

add(regs, rd, rs1, rs2) ==
    Done(set(regs, rd, overflowing_add(get(regs, rs1), get(regs, rs2)).value))

sub(regs, rd, rs1, rs2) ==
    Done(set(regs, rd, overflowing_sub(get(regs, rs1), get(regs, rs2)).value))

slt(regs, rd, rs1, rs2) ==
    Done(set(regs, rd, BoolU32(LtS(get(regs, rs1), get(regs, rs2)))))

sltu(regs, rd, rs1, rs2) ==
    Done(set(regs, rd, BoolU32(LtU(get(regs, rs1), get(regs, rs2)))))

and(regs, rd, rs1, rs2) ==
    Done(set(regs, rd, BitAnd(get(regs, rs1), get(regs, rs2))))

or(regs, rd, rs1, rs2) ==
    Done(set(regs, rd, BitOr(get(regs, rs1), get(regs, rs2))))

xor(regs, rd, rs1, rs2) ==
    Done(set(regs, rd, BitXor(get(regs, rs1), get(regs, rs2))))

\* sll masking its shift amount to 4 bits
sll_mask4(regs, rd, rs1, rs2) ==
    Done(set(regs, rd,
             ShlBits(get(regs, rs1), Lo(BitAnd(get(regs, rs2), U32(0, 15))))))

sll(regs, rd, rs1, rs2) ==
    Done(set(regs, rd,
             ShlBits(get(regs, rs1), Lo(BitAnd(get(regs, rs2), U32(0, 31))))))

srl(regs, rd, rs1, rs2) ==
    Done(set(regs, rd,
             ShrBits(get(regs, rs1), Lo(BitAnd(get(regs, rs2), U32(0, 31))))))

sra(regs, rd, rs1, rs2) ==
    Done(set(regs, rd,
             SarBits(get(regs, rs1), Lo(BitAnd(get(regs, rs2), U32(0, 31))))))

jal(regs, checks, rd, imm) ==
    LET current_pc == get(regs, pc)
        following_jump == overflowing_add(current_pc, Four)
        jump_to == unsigned_signed_add(current_pc, imm)
    IN  IF checks /\ following_jump.overflow THEN Panic(regs)
        ELSE Done(set(set(regs, rd, following_jump.value), pc, jump_to))

jalr(regs, checks, rd, rs1, imm) ==
    LET following_jump == overflowing_add(get(regs, pc), Four)
        jump_to == unsigned_signed_add(get(regs, rs1), imm)
    IN  IF checks /\ following_jump.overflow THEN Panic(regs)
        ELSE Done(set(set(regs, rd, following_jump.value), pc, jump_to))

beq(regs, rs1, rs2, imm) ==
    IF get(regs, rs1) = get(regs, rs2)
    THEN Done(set(regs, pc, unsigned_signed_add(get(regs, pc), imm)))
    ELSE Done(regs)

bne(regs, rs1, rs2, imm) ==
    IF get(regs, rs1) # get(regs, rs2)
    THEN Done(set(regs, pc, unsigned_signed_add(get(regs, pc), imm)))
    ELSE Done(regs)

\* blt comparing its operands as unsigned numbers
blt_unsigned(regs, rs1, rs2, imm) ==
    IF LtU(get(regs, rs1), get(regs, rs2))
    THEN Done(set(regs, pc, unsigned_signed_add(get(regs, pc), imm)))
    ELSE Done(regs)

blt(regs, rs1, rs2, imm) ==
    IF LtS(get(regs, rs1), get(regs, rs2))
    THEN Done(set(regs, pc, unsigned_signed_add(get(regs, pc), imm)))
    ELSE Done(regs)

bltu(regs, rs1, rs2, imm) ==
    IF LtU(get(regs, rs1), get(regs, rs2))
    THEN Done(set(regs, pc, unsigned_signed_add(get(regs, pc), imm)))
    ELSE Done(regs)

bge(regs, rs1, rs2, imm) ==
    IF ~LtS(get(regs, rs1), get(regs, rs2))
    THEN Done(set(regs, pc, unsigned_signed_add(get(regs, pc), imm)))
    ELSE Done(regs)

bgeu(regs, rs1, rs2, imm) ==
    IF ~LtU(get(regs, rs1), get(regs, rs2))
    THEN Done(set(regs, pc, unsigned_signed_add(get(regs, pc), imm)))
    ELSE Done(regs)

(***************************************************************************)
(* Memory (src/src/memory.rs).  A slab key is the pair <<lower, upper>> of *)
(* u32 bounds; a slab is a function from 0..slabsize-1 to bytes.  An       *)
(* Option is None or Some(v); an access ends with a result or panics.      *)
(***************************************************************************)
slabsize == 1024

None == [some |-> FALSE]
Some(v) == [some |-> TRUE, value |-> v]

\* Memory::new
NoSlabs == << >>

range_for(index, checks) ==
    LET diff == Lo(index) % slabsize
        lower_bound == U32(Hi(index), Lo(index) - diff)
        upper_bound == overflowing_add(lower_bound, U32(0, slabsize))
    IN  [panic |-> checks /\ upper_bound.overflow,
         key |-> <<lower_bound, upper_bound.value>>,
         diff |-> diff]

get_byte(s, checks, index) ==
    LET r == range_for(index, checks)
    IN  IF r.panic THEN [panic |-> TRUE, ret |-> None]
        ELSE [panic |-> FALSE,
              ret |-> IF r.key \in DOMAIN s THEN Some(s[r.key][r.diff]) ELSE None]

RECURSIVE get_half_loop(_, _, _, _, _)
\* the loop of get_half from iteration i on, val being a u16
get_half_loop(s, checks, index, i, val) ==
    IF i = 2 THEN [panic |-> FALSE, ret |-> Some(val)]
    ELSE LET a == overflowing_add(index, U32(0, i))
             b == get_byte(s, checks, a.value)
         IN  IF (checks /\ a.overflow) \/ b.panic THEN [panic |-> TRUE, ret |-> None]
             ELSE IF ~b.ret.some THEN [panic |-> FALSE, ret |-> None]
             ELSE get_half_loop(s, checks, index, i + 1, (b.ret.value * 2^i) % H)

get_half(s, checks, index) == get_half_loop(s, checks, index, 0, 0)

RECURSIVE get_word_loop(_, _, _, _, _)
\* the loop of get_word from iteration i on, val being a u32
get_word_loop(s, checks, index, i, val) ==
    IF i = 4 THEN [panic |-> FALSE, ret |-> Some(val)]
    ELSE LET a == overflowing_add(index, U32(0, i))
             b == get_byte(s, checks, a.value)
         IN  IF (checks /\ a.overflow) \/ b.panic THEN [panic |-> TRUE, ret |-> None]
             ELSE IF ~b.ret.some THEN [panic |-> FALSE, ret |-> None]
             ELSE get_word_loop(s, checks, index, i + 1,
                                ShlBits(U32(0, b.ret.value), i))

get_word(s, checks, index) == get_word_loop(s, checks, index, 0, Zero)

\* vec![0u8; slabsize]
ZeroSlab == [d \in 0..(slabsize - 1) |-> 0]

\* `stored` counts the bytes the call has stored when it ends
set_byte(s, checks, index, value) ==
    LET r == range_for(index, checks)
        vec == IF r.key \in DOMAIN s THEN s[r.key] ELSE ZeroSlab
    IN  IF r.panic THEN [panic |-> TRUE, slabs |-> s, stored |-> 0]
        ELSE [panic |-> FALSE,
              slabs |-> [k \in (DOMAIN s) \cup {r.key} |->
                            IF k = r.key THEN [vec EXCEPT ![r.diff] = value]
                            ELSE s[k]],
              stored |-> 1]

RECURSIVE set_half_loop(_, _, _, _, _)
\* the loop of set_half from iteration i on, value being a u16
set_half_loop(s, checks, index, value, i) ==
    IF i = 2 THEN [panic |-> FALSE, slabs |-> s, stored |-> i]
    ELSE LET byte == (value \div 2^i) % 256
             a == overflowing_add(index, U32(0, i))
             w == set_byte(s, checks, a.value, byte)
         IN  IF (checks /\ a.overflow) \/ w.panic
             THEN [panic |-> TRUE, slabs |-> s, stored |-> i]
             ELSE set_half_loop(w.slabs, checks, index, value, i + 1)

set_half(s, checks, index, value) == set_half_loop(s, checks, index, value, 0)

RECURSIVE set_word_loop(_, _, _, _, _)
\* the loop of set_word from iteration i on, value being a u32
set_word_loop(s, checks, index, value, i) ==
    IF i = 4 THEN [panic |-> FALSE, slabs |-> s, stored |-> i]
    ELSE LET byte == Lo(ShrBits(value, i)) % 256
             a == overflowing_add(index, U32(0, i))
             w == set_byte(s, checks, a.value, byte)
         IN  IF (checks /\ a.overflow) \/ w.panic
             THEN [panic |-> TRUE, slabs |-> s, stored |-> i]
             ELSE set_word_loop(w.slabs, checks, index, value, i + 1)

set_word(s, checks, index, value) == set_word_loop(s, checks, index, value, 0)

(***************************************************************************)
(* The operands an exploration draws: the register indices of instruction  *)
(* operands, the slots `set` may write, the immediates and values, the     *)
(* number of operations, and whether the operation before the last is kept *)
(* in `prev`.                                                              *)
(***************************************************************************)
\* every operation: x0 and x1, with 1, 33 (a shift amount past 31) and
\* 0xFFFFFFFC (-4, and a pc 4 below 2^32)
AllScope ==
    [regs |-> {0, 1}, slots |-> {0, 1, pc},
     imms |-> {One, U32(0, 33), U32(H - 1, H - 4)},
     max |-> MaxSteps, track |-> FALSE]

\* control transfer: offsets 0, 4, 0x7ff, 0x80000000 (the most negative i32),
\* 0xFFFFFFFC (-4) and 0xFFFFFFFF (-1)
JumpScope ==
    [regs |-> {0, 1}, slots |-> {0, 1, pc},
     imms |-> {Zero, Four, U32(0, 2047), U32(2^15, 0), U32(H - 1, H - 4),
               U32(H - 1, H - 1)},
     max |-> MaxJumpSteps, track |-> FALSE]

\* register shifts: amounts 0, 1, 32, 33 and 0xFFFFFFFF, values with the sign
\* bit set and clear
ShiftScope ==
    [regs |-> {0, 1, 2}, slots |-> {1, 2},
     imms |-> {Zero, One, U32(0, 32), U32(0, 33), U32(2^15, 1),
               U32(H - 1, H - 1)},
     max |-> MaxShiftSteps, track |-> FALSE]

\* 12-bit immediates: 1, 5, 0x7ff (the largest), 0x800 (-2048, the smallest)
\* and 0xfff (-1)
Imm12s == {U32(0, 1), U32(0, 5), U32(0, 2047), U32(0, 2048), U32(0, 4095)}

\* the 12-bit immediates as an instruction is given them
SignedImms == {sign_extend(i) : i \in Imm12s}

\* -k modulo 2^32
Negated(k) ==
    U32((H - Hi(k) - (IF Lo(k) = 0 THEN 0 ELSE 1)) % H, (H - Lo(k)) % H)

\* addi and its inverse on x1: the sign-extended 12-bit immediates and their
\* negations, as immediates and as starting values
AddiScope ==
    [regs |-> {0, 1}, slots |-> {1},
     imms |-> SignedImms \cup {Negated(k) : k \in SignedImms},
     max |-> MaxAddiSteps, track |-> TRUE]

\* immediate instructions as the tests drive them: rd = x1, rs1 = x3 or x1,
\* the sign-extended 12-bit immediates, and the register values 0x80000000,
\* 0x7fffffff and 0x00ff00ff beside them
ImmScope ==
    [regs |-> {1, 3}, slots |-> {1, 3},
     imms |-> SignedImms \cup {U32(2^15, 0), U32(2^15 - 1, H - 1), U32(255, 255)},
     max |-> MaxImmSteps, track |-> FALSE]

\* sequences of writes and reads: x0 to x3 with the values 5 and 3
SeqScope ==
    [regs |-> {0, 1, 2, 3}, slots |-> {1, pc},
     imms |-> {U32(0, 5), U32(0, 3)},
     max |-> MaxSeqSteps, track |-> FALSE]

\* memory: 100 and 102 (overlapping words inside the first slab), 1023 (the
\* last byte of the first slab), 0xFFFFFBFE (a word reaching into the topmost
\* slab) and 0xFFFFFFFF (the last address)
Addrs == {U32(0, 100), U32(0, 102), U32(0, 1023), U32(H - 1, H - 1026),
          U32(H - 1, H - 1)}
Bytes == {1, 239}
Halves == {256, 48879}
Words == {One, U32(57005, 48879)}

(***************************************************************************)
(* The state after construction.                                           *)
(***************************************************************************)
NoOp == [op |-> "new", rd |-> 0, rs1 |-> 0, rs2 |-> 0, imm |-> Zero,
         pre |-> new, panic |-> FALSE]

NoAccess == [op |-> "new", index |-> Zero, value |-> 0, ret |-> None,
             panic |-> FALSE, pre |-> NoSlabs]

Init ==
    /\ registers = new
    /\ slabs = NoSlabs
    /\ overflow_checks \in BOOLEAN
    /\ panicked = FALSE
    /\ last = NoOp
    /\ prev = NoOp
    /\ mlast = NoAccess
    /\ written = {}
    /\ zero_writes = 0
    /\ steps = 0

(***************************************************************************)
(* One Processor operation: `out` is how the operation ends.               *)
(***************************************************************************)
Branches == {"beq", "bne", "blt", "bltu", "bge", "bgeu"}

Exec(sc, op, rd, rs1, rs2, imm, out) ==
    /\ ~panicked
    /\ steps < sc.max
    /\ registers' = out.registers
    /\ panicked' = out.panic
    /\ last' = [op |-> op, rd |-> rd, rs1 |-> rs1, rs2 |-> rs2, imm |-> imm,
                pre |-> registers, panic |-> out.panic]
    /\ prev' = IF sc.track THEN last ELSE prev
    /\ zero_writes' = IF rd = 0 /\ op \notin Branches THEN zero_writes + 1
                      ELSE zero_writes
    /\ steps' = steps + 1
    /\ UNCHANGED <<slabs, overflow_checks, mlast, written>>

Set(sc) ==
    \E reg \in sc.slots, val \in sc.imms :
        Exec(sc, "set", reg, 0, 0, val, Done(set(registers, reg, val)))

Addi(sc) ==
    \E rd \in sc.regs, rs1 \in sc.regs, imm \in sc.imms :
        Exec(sc, "addi", rd, rs1, 0, imm, addi(registers, rd, rs1, imm))

Slti(sc) ==
    \E rd \in sc.regs, rs1 \in sc.regs, imm \in sc.imms :
        Exec(sc, "slti", rd, rs1, 0, imm, slti(registers, rd, rs1, imm))

Sltiu(sc) ==
    \E rd \in sc.regs, rs1 \in sc.regs, imm \in sc.imms :
        Exec(sc, "sltiu", rd, rs1, 0, imm, sltiu(registers, rd, rs1, imm))

Andi(sc) ==
    \E rd \in sc.regs, rs1 \in sc.regs, imm \in sc.imms :
        Exec(sc, "andi", rd, rs1, 0, imm, andi(registers, rd, rs1, imm))

Ori(sc) ==
    \E rd \in sc.regs, rs1 \in sc.regs, imm \in sc.imms :
        Exec(sc, "ori", rd, rs1, 0, imm, ori(registers, rd, rs1, imm))

Xori(sc) ==
    \E rd \in sc.regs, rs1 \in sc.regs, imm \in sc.imms :
        Exec(sc, "xori", rd, rs1, 0, imm, xori(registers, rd, rs1, imm))

Slli(sc) ==
    \E rd \in sc.regs, rs1 \in sc.regs, imm \in sc.imms :
        Exec(sc, "slli", rd, rs1, 0, imm,
             slli(registers, overflow_checks, rd, rs1, imm))

Srli(sc) ==
    \E rd \in sc.regs, rs1 \in sc.regs, imm \in sc.imms :
        Exec(sc, "srli", rd, rs1, 0, imm,
             srli(registers, overflow_checks, rd, rs1, imm))

Srai(sc) ==
    \E rd \in sc.regs, rs1 \in sc.regs, imm \in sc.imms :
        Exec(sc, "srai", rd, rs1, 0, imm,
             srai(registers, overflow_checks, rd, rs1, imm))

Lui(sc) ==
    \E rd \in sc.regs, imm \in sc.imms :
        Exec(sc, "lui", rd, 0, 0, imm, lui(registers, rd, imm))

Auipc(sc) ==
    \E rd \in sc.regs, imm \in sc.imms :
        Exec(sc, "auipc", rd, 0, 0, imm, auipc(registers, rd, imm))

Add(sc) ==
    \E rd \in sc.regs, rs1 \in sc.regs, rs2 \in sc.regs :
        Exec(sc, "add", rd, rs1, rs2, Zero, add(registers, rd, rs1, rs2))

Sub(sc) ==
    \E rd \in sc.regs, rs1 \in sc.regs, rs2 \in sc.regs :
        Exec(sc, "sub", rd, rs1, rs2, Zero, sub(registers, rd, rs1, rs2))

Slt(sc) ==
    \E rd \in sc.regs, rs1 \in sc.regs, rs2 \in sc.regs :
        Exec(sc, "slt", rd, rs1, rs2, Zero, slt(registers, rd, rs1, rs2))

Sltu(sc) ==
    \E rd \in sc.regs, rs1 \in sc.regs, rs2 \in sc.regs :
        Exec(sc, "sltu", rd, rs1, rs2, Zero, sltu(registers, rd, rs1, rs2))

And(sc) ==
    \E rd \in sc.regs, rs1 \in sc.regs, rs2 \in sc.regs :
        Exec(sc, "and", rd, rs1, rs2, Zero, and(registers, rd, rs1, rs2))

Or(sc) ==
    \E rd \in sc.regs, rs1 \in sc.regs, rs2 \in sc.regs :
        Exec(sc, "or", rd, rs1, rs2, Zero, or(registers, rd, rs1, rs2))

Xor(sc) ==
    \E rd \in sc.regs, rs1 \in sc.regs, rs2 \in sc.regs :
        Exec(sc, "xor", rd, rs1, rs2, Zero, xor(registers, rd, rs1, rs2))

Sll(sc) ==
    \E rd \in sc.regs, rs1 \in sc.regs, rs2 \in sc.regs :
        Exec(sc, "sll", rd, rs1, rs2, Zero, sll(registers, rd, rs1, rs2))

Srl(sc) ==
    \E rd \in sc.regs, rs1 \in sc.regs, rs2 \in sc.regs :
        Exec(sc, "srl", rd, rs1, rs2, Zero, srl(registers, rd, rs1, rs2))

Sra(sc) ==
    \E rd \in sc.regs, rs1 \in sc.regs, rs2 \in sc.regs :
        Exec(sc, "sra", rd, rs1, rs2, Zero, sra(registers, rd, rs1, rs2))

Jal(sc) ==
    \E rd \in sc.regs, imm \in sc.imms :
        Exec(sc, "jal", rd, 0, 0, imm, jal(registers, overflow_checks, rd, imm))

Jalr(sc) ==
    \E rd \in sc.regs, rs1 \in sc.regs, imm \in sc.imms :
        Exec(sc, "jalr", rd, rs1, 0, imm,
             jalr(registers, overflow_checks, rd, rs1, imm))

Beq(sc) ==
    \E rs1 \in sc.regs, rs2 \in sc.regs, imm \in sc.imms :
        Exec(sc, "beq", 0, rs1, rs2, imm, beq(registers, rs1, rs2, imm))

Bne(sc) ==
    \E rs1 \in sc.regs, rs2 \in sc.regs, imm \in sc.imms :
        Exec(sc, "bne", 0, rs1, rs2, imm, bne(registers, rs1, rs2, imm))

Blt(sc) ==
    \E rs1 \in sc.regs, rs2 \in sc.regs, imm \in sc.imms :
        Exec(sc, "blt", 0, rs1, rs2, imm, blt(registers, rs1, rs2, imm))

Bltu(sc) ==
    \E rs1 \in sc.regs, rs2 \in sc.regs, imm \in sc.imms :
        Exec(sc, "bltu", 0, rs1, rs2, imm, bltu(registers, rs1, rs2, imm))

Bge(sc) ==
    \E rs1 \in sc.regs, rs2 \in sc.regs, imm \in sc.imms :
        Exec(sc, "bge", 0, rs1, rs2, imm, bge(registers, rs1, rs2, imm))

Bgeu(sc) ==
    \E rs1 \in sc.regs, rs2 \in sc.regs, imm \in sc.imms :
        Exec(sc, "bgeu", 0, rs1, rs2, imm, bgeu(registers, rs1, rs2, imm))

Next ==
    \/ Set(AllScope)
    \/ Addi(AllScope)
    \/ Slti(AllScope)
    \/ Sltiu(AllScope)
    \/ Andi(AllScope)
    \/ Ori(AllScope)
    \/ Xori(AllScope)
    \/ Slli(AllScope)
    \/ Srli(AllScope)
    \/ Srai(AllScope)
    \/ Lui(AllScope)
    \/ Auipc(AllScope)
    \/ Add(AllScope)
    \/ Sub(AllScope)
    \/ Slt(AllScope)
    \/ Sltu(AllScope)
    \/ And(AllScope)
    \/ Or(AllScope)
    \/ Xor(AllScope)
    \/ Sll(AllScope)
    \/ Srl(AllScope)
    \/ Sra(AllScope)
    \/ Jal(AllScope)
    \/ Jalr(AllScope)
    \/ Beq(AllScope)
    \/ Bne(AllScope)
    \/ Blt(AllScope)
    \/ Bltu(AllScope)
    \/ Bge(AllScope)
    \/ Bgeu(AllScope)

Spec == Init /\ [][Next]_vars

JumpNext ==
    \/ Set(JumpScope)
    \/ Jal(JumpScope)
    \/ Jalr(JumpScope)
    \/ Beq(JumpScope)
    \/ Bne(JumpScope)
    \/ Blt(JumpScope)
    \/ Bltu(JumpScope)
    \/ Bge(JumpScope)
    \/ Bgeu(JumpScope)

JumpSpec == Init /\ [][JumpNext]_vars

ShiftNext ==
    \/ Set(ShiftScope)
    \/ Sll(ShiftScope)
    \/ Srl(ShiftScope)
    \/ Sra(ShiftScope)

ShiftSpec == Init /\ [][ShiftNext]_vars

ImmNext ==
    \/ Set(ImmScope)
    \/ Addi(ImmScope)
    \/ Slti(ImmScope)
    \/ Andi(ImmScope)
    \/ Ori(ImmScope)
    \/ Xori(ImmScope)

ImmSpec == Init /\ [][ImmNext]_vars

AddiNext ==
    \/ Set(AddiScope)
    \/ Addi(AddiScope)

AddiSpec == Init /\ [][AddiNext]_vars

(***************************************************************************)
(* One Memory operation.  A load leaves the slabs alone; a store that      *)
(* panics keeps the bytes it had stored before.                            *)
(***************************************************************************)
Access(op, index, value, out_slabs, ret, panic, stored) ==
    /\ ~panicked
    /\ steps < MaxMemSteps
    /\ slabs' = out_slabs
    /\ panicked' = panic
    /\ mlast' = [op |-> op, index |-> index, value |-> value, ret |-> ret,
                 panic |-> panic, pre |-> slabs]
    /\ written' = written \cup {wrapping_add(index, U32(0, i)) : i \in 0..(stored - 1)}
    /\ steps' = steps + 1
    /\ UNCHANGED <<registers, overflow_checks, last, prev, zero_writes>>

GetByte ==
    \E index \in Addrs :
        LET out == get_byte(slabs, overflow_checks, index)
        IN  Access("get_byte", index, 0, slabs, out.ret, out.panic, 0)

GetHalf ==
    \E index \in Addrs :
        LET out == get_half(slabs, overflow_checks, index)
        IN  Access("get_half", index, 0, slabs, out.ret, out.panic, 0)

GetWord ==
    \E index \in Addrs :
        LET out == get_word(slabs, overflow_checks, index)
        IN  Access("get_word", index, 0, slabs, out.ret, out.panic, 0)

SetByte ==
    \E index \in Addrs, value \in Bytes :
        LET out == set_byte(slabs, overflow_checks, index, value)
        IN  Access("set_byte", index, value, out.slabs, None, out.panic, out.stored)

SetHalf ==
    \E index \in Addrs, value \in Halves :
        LET out == set_half(slabs, overflow_checks, index, value)
        IN  Access("set_half", index, value, out.slabs, None, out.panic, out.stored)

SetWord ==
    \E index \in Addrs, value \in Words :
        LET out == set_word(slabs, overflow_checks, index, value)
        IN  Access("set_word", index, value, out.slabs, None, out.panic, out.stored)

MemNext ==
    \/ GetByte
    \/ GetHalf
    \/ GetWord
    \/ SetByte
    \/ SetHalf
    \/ SetWord

MemSpec == Init /\ [][MemNext]_vars

(***************************************************************************)
(* Reference semantics the claims are stated with.  They are written from  *)
(* the arithmetic meaning of the operations, not from the code's steps.    *)
(***************************************************************************)
\* the value an instruction is to see in register r of the register file pre
Operand(pre, r) == IF r = 0 THEN Zero ELSE pre[r]

\* the high half of x read as a signed number
SignedHi(x) == IF Hi(x) >= 2^15 THEN Hi(x) - H ELSE Hi(x)

\* (base + offset) mod 2^32, offset read as a signed 32-bit number
SignedAddRef(base, offset) ==
    LET lo == Lo(base) + Lo(offset)
    IN  U32((Hi(base) + SignedHi(offset) + (lo \div H) + H) % H, lo % H)

\* a < b, both read as signed 32-bit numbers
SignedLessRef(a, b) ==
    \/ SignedHi(a) < SignedHi(b)
    \/ (SignedHi(a) = SignedHi(b) /\ Lo(a) < Lo(b))

\* a < b, both read as unsigned 32-bit numbers: a - b borrows out of bit 31
UnsignedLessRef(a, b) ==
    Hi(a) - Hi(b) - (IF Lo(a) < Lo(b) THEN 1 ELSE 0) < 0

\* the condition a conditional branch names
BranchCond(op, a, b) ==
    CASE op = "beq"  -> a = b
      [] op = "bne"  -> a # b
      [] op = "blt"  -> SignedLessRef(a, b)
      [] op = "bltu" -> UnsignedLessRef(a, b)
      [] op = "bge"  -> ~SignedLessRef(a, b)
      [] op = "bgeu" -> ~UnsignedLessRef(a, b)

\* bit i (0 the lowest) of x
Bit(x, i) == IF i < 16 THEN (Lo(x) \div 2^i) % 2 ELSE (Hi(x) \div 2^(i - 16)) % 2

RECURSIVE HalfOfBits(_, _, _)
\* the 16-bit number whose bit j is b[from + j], for j below n
HalfOfBits(b, from, n) ==
    IF n = 0 THEN 0
    ELSE b[from + n - 1] * 2^(n - 1) + HalfOfBits(b, from, n - 1)

\* the u32 whose bit i is b[i]
OfBits(b) == U32(HalfOfBits(b, 16, 16), HalfOfBits(b, 0, 16))

\* the register shift `op` of value by amount mod 32, bit by bit: sll moves
\* bit i to i + n, srl and sra move bit i + n to i, and sra fills the vacated
\* high bits with the sign bit
ShiftRef(op, value, amount) ==
    LET n == Lo(amount) % 32
        sign == Bit(value, 31)
    IN  CASE op = "sll" ->
                OfBits([i \in 0..31 |-> IF i >= n THEN Bit(value, i - n) ELSE 0])
          [] op = "srl" ->
                OfBits([i \in 0..31 |-> IF i + n <= 31 THEN Bit(value, i + n) ELSE 0])
          [] op = "sra" ->
                OfBits([i \in 0..31 |-> IF i + n <= 31 THEN Bit(value, i + n) ELSE sign])

\* every general register of the file regs holds what it held in pre
GeneralUnchanged(pre, regs) == \A r \in 0..31 : regs[r] = pre[r]

(***************************************************************************)
(* Claims about the Processor.                                             *)
(***************************************************************************)
ImmOps == {"addi", "slti", "sltiu", "andi", "ori", "xori", "slli", "srli", "srai"}
RegOps == {"add", "sub", "slt", "sltu", "and", "or", "xor", "sll", "srl", "sra"}

\* what an immediate instruction yields when its source is register 0
ImmOfZero(op, imm) ==
    CASE op \in {"addi", "ori", "xori"} -> imm
      [] op \in {"andi", "slli", "srli", "srai"} -> Zero
      [] op = "slti" -> BoolU32(SignedLessRef(Zero, imm))
      [] op = "sltiu" -> BoolU32(UnsignedLessRef(Zero, imm))

\* C1: register 0 always reads 0 and its slot is never written: get(0) is 0
\* in every reachable state, slot 0 of the register file stays 0 whatever
\* was executed with rd = 0, and an instruction whose rs1 (or rs2) is 0
\* computes with the value 0 for that operand.
C1_ZeroRegister ==
    /\ get(registers, 0) = Zero
    /\ registers[0] = Zero
    /\ (last.op \in ImmOps /\ last.rs1 = 0 /\ last.rd # 0 /\ ~last.panic)
           => registers[last.rd] = ImmOfZero(last.op, last.imm)
    /\ (last.op \in RegOps /\ last.rs1 = 0 /\ last.rs2 = 0 /\ last.rd # 0)
           => registers[last.rd] = Zero
    /\ (last.op \in {"add", "or", "xor"} /\ last.rs1 = 0 /\ last.rs2 # 0
            /\ last.rd # 0)
           => registers[last.rd] = last.pre[last.rs2]
    /\ (last.op \in {"add", "or", "xor", "sub"} /\ last.rs2 = 0 /\ last.rs1 # 0
            /\ last.rd # 0)
           => registers[last.rd] = last.pre[last.rs1]
    /\ (last.op = "jalr" /\ last.rs1 = 0 /\ ~last.panic)
           => registers[pc] = last.imm
    /\ (last.op \in {"beq", "bge", "bgeu"} /\ last.rs1 = 0 /\ last.rs2 = 0)
           => registers[pc] = SignedAddRef(last.pre[pc], last.imm)

\* C1 witness: after an attempt to write register 0, an addi reading
\* register 0 has put its immediate in x1
C1_Witness ==
    /\ zero_writes >= 1
    /\ steps = 2
    /\ last.op = "addi" /\ last.rs1 = 0 /\ last.rd = 1
    /\ registers[1] = U32(0, 33)
    /\ registers[0] = Zero

\* C5: no instruction faults on arithmetic overflow: every instruction
\* completes, and jal and jalr store (pc + 4) mod 2^32 in rd.
C5_NoOverflowFault ==
    /\ ~last.panic
    /\ (last.op \in {"jal", "jalr"} /\ last.rd # 0)
           => registers[last.rd] = SignedAddRef(last.pre[pc], Four)

\* C7: jal(rd, imm) sets rd to the old pc + 4 and pc to
\* (old pc + signed imm) mod 2^32; with rd = 0 only pc changes.
C7_Jal ==
    last.op = "jal" =>
        /\ ~last.panic
        /\ registers[pc] = SignedAddRef(last.pre[pc], last.imm)
        /\ last.rd # 0 => registers[last.rd] = SignedAddRef(last.pre[pc], Four)
        /\ \A r \in 0..31 : r # last.rd => registers[r] = last.pre[r]

\* what jal leaves whenever it returns (the part of C7 the panic does not touch)
JalWhenItReturns ==
    (last.op = "jal" /\ ~last.panic) =>
        /\ registers[pc] = SignedAddRef(last.pre[pc], last.imm)
        /\ last.rd # 0 => registers[last.rd] = SignedAddRef(last.pre[pc], Four)
        /\ \A r \in 0..31 : r # last.rd => registers[r] = last.pre[r]

\* C8: a conditional branch sets pc to (pc + signed imm) mod 2^32 when its
\* condition holds (signed for blt/bge, unsigned for bltu/bgeu) and leaves pc
\* alone when it does not; the 32 general registers are unchanged either way.
C8_Branches ==
    last.op \in Branches =>
        /\ ~last.panic
        /\ registers[pc] =
               IF BranchCond(last.op, Operand(last.pre, last.rs1),
                             Operand(last.pre, last.rs2))
               THEN SignedAddRef(last.pre[pc], last.imm)
               ELSE last.pre[pc]
        /\ GeneralUnchanged(last.pre, registers)

\* C8 witness: blt was taken on a negative x1 against x0, where the unsigned
\* comparison does not hold
C8_Witness ==
    /\ last.op = "blt" /\ last.rs1 = 1 /\ last.rs2 = 0
    /\ last.pre[1] = U32(2^15, 0)
    /\ last.imm = U32(0, 2047)
    /\ registers[pc] = U32(0, 2047)
    /\ registers[1] = U32(2^15, 0)

\* the bases and offsets unsigned_signed_add is tried on
AddBases == {Zero, One, Four, U32(0, 2047), U32(0, H - 1), U32(1, 0),
             U32(2^15 - 1, H - 1), U32(2^15, 0), U32(H - 1, H - 4),
             U32(H - 1, H - 1)}
AddOffsets == {Zero, One, U32(0, 2047), U32(0, H - 1), U32(1, 0),
               U32(2^15 - 1, H - 1), U32(2^15, 0), U32(2^15, 1),
               U32(H - 1, 0), U32(H - 1, H - 2^11), U32(H - 1, H - 4),
               U32(H - 1, H - 1)}

\* C9: unsigned_signed_add(base, offset) is (base + offset) mod 2^32 for every
\* base and every signed offset, the most negative one included, and jal,
\* jalr and the six branches take their target from it.
C9_MixedSignAdd ==
    /\ \A base \in AddBases, offset \in AddOffsets :
           unsigned_signed_add(base, offset) = SignedAddRef(base, offset)
    /\ (last.op = "jal" /\ ~last.panic)
           => registers[pc] = unsigned_signed_add(last.pre[pc], last.imm)
    /\ (last.op = "jalr" /\ ~last.panic)
           => registers[pc] =
                  unsigned_signed_add(Operand(last.pre, last.rs1), last.imm)
    /\ (last.op \in Branches /\ registers[pc] # last.pre[pc])
           => registers[pc] = unsigned_signed_add(last.pre[pc], last.imm)
    /\ (last.op \in Branches \cup {"jal", "jalr"} /\ ~last.panic
            /\ (last.op \in Branches =>
                    BranchCond(last.op, Operand(last.pre, last.rs1),
                               Operand(last.pre, last.rs2))))
           => registers[pc] =
                  SignedAddRef(IF last.op = "jalr"
                               THEN Operand(last.pre, last.rs1)
                               ELSE last.pre[pc], last.imm)

\* C9 witness: jal from pc = 0x7ff with the most negative offset
C9_Witness ==
    /\ last.op = "jal" /\ ~last.panic
    /\ last.pre[pc] = U32(0, 2047)
    /\ last.imm = U32(2^15, 0)
    /\ registers[pc] = U32(2^15, 2047)

\* C10: sll, srl and sra shift by the value of rs2 mod 32 (an amount of 32
\* shifts by 0), and sra fills the vacated high bits with the sign bit.
C10_ShiftMasking ==
    (last.op \in {"sll", "srl", "sra"} /\ last.rd # 0) =>
        /\ ~last.panic
        /\ registers[last.rd] =
               ShiftRef(last.op, Operand(last.pre, last.rs1),
                        Operand(last.pre, last.rs2))
        /\ Operand(last.pre, last.rs2) = U32(0, 32)
               => registers[last.rd] = Operand(last.pre, last.rs1)

\* C10 witness: sra of 0x80000001 by 33 has shifted by 1 and kept the sign
C10_Witness ==
    /\ last.op = "sra" /\ last.rs1 = 1 /\ last.rs2 = 2 /\ last.rd = 1
    /\ last.pre[1] = U32(2^15, 1)
    /\ last.pre[2] = U32(0, 33)
    /\ registers[1] = U32(2^15 + 2^14, 0)

(***************************************************************************)
(* Claims about the Memory.                                                *)
(***************************************************************************)
\* byte i of a u32 value, (value >> (8*i)) & 0xFF
ByteOfWord(value, i) ==
    CASE i = 0 -> Lo(value) % 256
      [] i = 1 -> Lo(value) \div 256
      [] i = 2 -> Hi(value) % 256
      [] i = 3 -> Hi(value) \div 256

\* byte i of a u16 value
ByteOfHalf(value, i) == IF i = 0 THEN value % 256 ELSE value \div 256

\* the address index + i, modulo 2^32
AddrPlus(index, i) == SignedAddRef(index, U32(0, i))

\* C2: set_word(a, v) followed by get_word(a) returns v, and set_half(a, h)
\* followed by get_half(a) returns h.
C2_RoundTrip ==
    /\ (mlast.op = "set_word" /\ ~mlast.panic)
           => get_word(slabs, overflow_checks, mlast.index).ret = Some(mlast.value)
    /\ (mlast.op = "set_half" /\ ~mlast.panic)
           => get_half(slabs, overflow_checks, mlast.index).ret = Some(mlast.value)

\* C3: after set_word(a, v) the byte at a + i is (v >> (8*i)) & 0xFF for i in
\* 0..3, and after set_half(a, h) the byte at a + i is (h >> (8*i)) & 0xFF
\* for i in 0..1.
C3_LittleEndian ==
    /\ (mlast.op = "set_word" /\ ~mlast.panic)
           => \A i \in 0..3 :
                  get_byte(slabs, overflow_checks, AddrPlus(mlast.index, i)).ret
                      = Some(ByteOfWord(mlast.value, i))
    /\ (mlast.op = "set_half" /\ ~mlast.panic)
           => \A i \in 0..1 :
                  get_byte(slabs, overflow_checks, AddrPlus(mlast.index, i)).ret
                      = Some(ByteOfHalf(mlast.value, i))

\* C4: no Memory access faults, whatever the address: the topmost slab and
\* multi-byte accesses that pass 0xFFFFFFFF included.
C4_NeverFaults == ~mlast.panic

\* the addresses the zero-fill claim is tried on where no slab need exist:
\* the bytes of every access the exploration makes and their neighbours
ProbeAddrs == {AddrPlus(a, i) : a \in Addrs, i \in 0..4} \cup {Zero, U32(0, 5000)}

\* the address of byte d of the slab with key k
SlabAddr(k, d) == U32(Hi(k[1]), Lo(k[1]) + d)

\* C6: get_byte of an address never written returns None or Some(0), and
\* Some(0) when the slab of the address exists.
C6_ZeroFill ==
    /\ \A a \in ProbeAddrs :
           a \notin written =>
               LET g == get_byte(slabs, overflow_checks, a)
               IN  ~g.panic /\ g.ret \in {None, Some(0)}
    /\ \A k \in DOMAIN slabs, d \in 0..(slabsize - 1) :
           SlabAddr(k, d) \notin written =>
               LET g == get_byte(slabs, overflow_checks, SlabAddr(k, d))
               IN  ~g.panic /\ g.ret = Some(0)

\* what get_byte gives for a never-written address whenever it returns (the
\* part of C6 the panic does not touch)
ZeroFillWhenItReturns ==
    /\ \A a \in ProbeAddrs :
           a \notin written =>
               LET g == get_byte(slabs, overflow_checks, a)
               IN  ~g.panic => g.ret \in {None, Some(0)}
    /\ \A k \in DOMAIN slabs, d \in 0..(slabsize - 1) :
           SlabAddr(k, d) \notin written =>
               LET g == get_byte(slabs, overflow_checks, SlabAddr(k, d))
               IN  ~g.panic => g.ret = Some(0)

\* the u32 whose four bytes, lowest first, are b0, b1, b2 and b3
WordOfBytes(b0, b1, b2, b3) == U32(b2 + 256 * b3, b0 + 256 * b1)

\* the u16 whose two bytes, lowest first, are b0 and b1
HalfOfBytes(b0, b1) == b0 + 256 * b1

\* what get_byte returns for the address index + i in the slabs s
ByteAt(s, index, i) == get_byte(s, overflow_checks, AddrPlus(index, i)).ret

\* C11: where the slabs of all its bytes exist, get_word(a) returns the sum
\* of byte[a + i] << (8*i) for i in 0..3 and get_half(a) the same sum for i
\* in 0..1, byte[x] being what get_byte(x) returns.
C11_LoadComposition ==
    /\ (mlast.op = "get_word"
            /\ \A i \in 0..3 : ByteAt(slabs, mlast.index, i).some)
           => /\ ~mlast.panic
              /\ mlast.ret = Some(WordOfBytes(ByteAt(slabs, mlast.index, 0).value,
                                              ByteAt(slabs, mlast.index, 1).value,
                                              ByteAt(slabs, mlast.index, 2).value,
                                              ByteAt(slabs, mlast.index, 3).value))
    /\ (mlast.op = "get_half"
            /\ \A i \in 0..1 : ByteAt(slabs, mlast.index, i).some)
           => /\ ~mlast.panic
              /\ mlast.ret = Some(HalfOfBytes(ByteAt(slabs, mlast.index, 0).value,
                                              ByteAt(slabs, mlast.index, 1).value))

(***************************************************************************)
(* Further claims about the Processor.                                     *)
(***************************************************************************)
\* 1 when the condition holds and 0 when it does not
Flag(cond) == IF cond THEN One ELSE Zero

\* C12: sltiu sets rd to 1 exactly when rs1 < imm as unsigned numbers and to
\* 0 otherwise, and with imm = 1 (SEQZ) it gives what the unsigned comparison
\* gives, 1 exactly when rs1 is 0, for every rs1 value.
C12_Sltiu ==
    /\ (last.op = "sltiu" /\ last.rd # 0) =>
           /\ ~last.panic
           /\ registers[last.rd] =
                  Flag(UnsignedLessRef(Operand(last.pre, last.rs1), last.imm))
           /\ last.imm = One =>
                  registers[last.rd] = Flag(Operand(last.pre, last.rs1) = Zero)
    /\ \A v \in AddBases :
           LET regs == set(new, 1, v)
           IN  /\ sltiu(regs, 2, 1, One).registers[2] = Flag(UnsignedLessRef(v, One))
               /\ sltiu(regs, 2, 1, One).registers[2] = Flag(v = Zero)
               /\ \A imm \in AddOffsets :
                      sltiu(regs, 2, 1, imm).registers[2]
                          = Flag(UnsignedLessRef(v, imm))

\* C12 witness: sltiu with imm = 1 on a register holding 33 has cleared it,
\* as the unsigned comparison 33 < 1 does
C12_Witness ==
    /\ last.op = "sltiu" /\ last.rd = 1 /\ last.rs1 = 1
    /\ last.imm = One
    /\ last.pre[1] = U32(0, 33)
    /\ registers[1] = Zero

\* C13: addi(r, r, k) followed by addi(r, r, -k), for r other than 0 and k a
\* sign-extended 12-bit immediate, leaves r holding the value it had before
\* the first of the two, whatever that value was.
C13_AddiInverse ==
    (/\ prev.op = "addi" /\ prev.rd = prev.rs1 /\ prev.rd # 0
     /\ prev.imm \in SignedImms
     /\ last.op = "addi" /\ last.rd = prev.rd /\ last.rs1 = prev.rd
     /\ last.imm = Negated(prev.imm))
        => /\ ~prev.panic /\ ~last.panic
           /\ last.pre[prev.rd] = SignedAddRef(prev.pre[prev.rd], prev.imm)
           /\ registers[prev.rd] = prev.pre[prev.rd]

\* C13 witness: from x1 = 0xFFFFFFFF, addi 5 has wrapped to 4 and addi -5 has
\* brought x1 back to 0xFFFFFFFF
C13_Witness ==
    /\ prev.op = "addi" /\ prev.rd = 1 /\ prev.rs1 = 1 /\ prev.imm = U32(0, 5)
    /\ prev.pre[1] = U32(H - 1, H - 1)
    /\ last.op = "addi" /\ last.rd = 1 /\ last.rs1 = 1
    /\ last.imm = U32(H - 1, H - 5)
    /\ last.pre[1] = Four
    /\ registers[1] = U32(H - 1, H - 1)

\* C14: jalr(rd, rs1, imm) sets rd to the old pc + 4 and pc to exactly
\* (old rs1 + signed imm) mod 2^32, no bit of it cleared, the old rs1 being
\* used when rd is rs1 too.
C14_JalrTarget ==
    last.op = "jalr" =>
        /\ ~last.panic
        /\ registers[pc] = SignedAddRef(Operand(last.pre, last.rs1), last.imm)
        /\ last.rd # 0 => registers[last.rd] = SignedAddRef(last.pre[pc], Four)
        /\ \A r \in 0..31 : r # last.rd => registers[r] = last.pre[r]

\* what jalr leaves whenever it returns (the part of C14 the panic does not
\* touch)
JalrWhenItReturns ==
    (last.op = "jalr" /\ ~last.panic) =>
        /\ registers[pc] = SignedAddRef(Operand(last.pre, last.rs1), last.imm)
        /\ last.rd # 0 => registers[last.rd] = SignedAddRef(last.pre[pc], Four)
        /\ \A r \in 0..31 : r # last.rd => registers[r] = last.pre[r]

\* C15: after jalr the least-significant byte of the target in pc is zero,
\* as the comment on jalr says.
C15_JalrAligned ==
    (last.op = "jalr" /\ ~last.panic) => Lo(registers[pc]) % 256 = 0

(***************************************************************************)
(* Sequences of Processor operations, with byte stores and loads of the    *)
(* Memory beside them.                                                     *)
(***************************************************************************)
SeqNext ==
    \/ Set(SeqScope)
    \/ Addi(SeqScope)
    \/ Add(SeqScope)
    \/ SetByte
    \/ GetByte

SeqSpec == Init /\ [][SeqNext]_vars

\* x1 = 5 and x2 = 3 in an otherwise fresh register file
FiveAndThree == [r \in 0..32 |-> IF r = 1 THEN U32(0, 5)
                                 ELSE IF r = 2 THEN U32(0, 3) ELSE Zero]

\* C16: a write is visible to the very next operation: get(r) after
\* set(r, v) returns v for r in 1..32, an instruction computes with the
\* values the operation before it left in its source registers (so add(x3,
\* x1, x2) after x1 and x2 were given 5 and 3 leaves 8 in x3), and
\* get_byte(a) after set_byte(a, v) returns Some(v).
C16_WritesVisible ==
    /\ ~last.panic
    /\ (last.op = "set" /\ last.rd \in 1..32)
           => get(registers, last.rd) = last.imm
    /\ (last.op = "addi" /\ last.rd # 0)
           => get(registers, last.rd)
                  = SignedAddRef(Operand(last.pre, last.rs1), last.imm)
    /\ (last.op = "add" /\ last.rd # 0)
           => get(registers, last.rd)
                  = SignedAddRef(Operand(last.pre, last.rs1),
                                 Operand(last.pre, last.rs2))
    /\ (last.op = "add" /\ last.rd = 3 /\ last.rs1 = 1 /\ last.rs2 = 2
            /\ last.pre = FiveAndThree)
           => get(registers, 3) = U32(0, 8)
    /\ mlast.op = "set_byte"
           => /\ ~mlast.panic
              /\ get_byte(slabs, overflow_checks, mlast.index)
                     = [panic |-> FALSE, ret |-> Some(mlast.value)]

\* the visibility of writes whenever the store returns (the part of C16 the
\* panic does not touch)
WritesVisibleWhenTheyReturn ==
    /\ ~last.panic
    /\ (last.op = "set" /\ last.rd \in 1..32)
           => get(registers, last.rd) = last.imm
    /\ (last.op = "addi" /\ last.rd # 0)
           => get(registers, last.rd)
                  = SignedAddRef(Operand(last.pre, last.rs1), last.imm)
    /\ (last.op = "add" /\ last.rd # 0)
           => get(registers, last.rd)
                  = SignedAddRef(Operand(last.pre, last.rs1),
                                 Operand(last.pre, last.rs2))
    /\ (last.op = "add" /\ last.rd = 3 /\ last.rs1 = 1 /\ last.rs2 = 2
            /\ last.pre = FiveAndThree)
           => get(registers, 3) = U32(0, 8)
    /\ (mlast.op = "set_byte" /\ ~mlast.panic)
           => get_byte(slabs, overflow_checks, mlast.index)
                  = [panic |-> FALSE, ret |-> Some(mlast.value)]

\* the scenario of C16 has run: addi(x1, x0, 5), addi(x2, x0, 3) and
\* add(x3, x1, x2) from a fresh Processor, leaving 8 in x3
EightInX3 ==
    /\ steps = 3
    /\ last.op = "add" /\ last.rd = 3 /\ last.rs1 = 1 /\ last.rs2 = 2
    /\ last.pre = FiveAndThree
    /\ get(registers, 3) = U32(0, 8)

\* a get_byte has returned the byte a set_byte stored just before it
StoredByteRead ==
    /\ steps = 2
    /\ mlast.op = "get_byte" /\ mlast.index = U32(0, 100)
    /\ written = {U32(0, 100)}
    /\ mlast.ret = Some(239)

\* a 12-bit immediate read as a signed number, as a 32-bit pattern
SextRef(i) == IF Lo(i) >= 2^11 THEN U32(H - 1, H - 2^12 + Lo(i)) ELSE i

\* a AND b, a OR b and a XOR b, bit by bit
AndRef(a, b) == OfBits([i \in 0..31 |-> Bit(a, i) * Bit(b, i)])
OrRef(a, b) == OfBits([i \in 0..31 |-> IF Bit(a, i) + Bit(b, i) >= 1 THEN 1 ELSE 0])
XorRef(a, b) == OfBits([i \in 0..31 |-> (Bit(a, i) + Bit(b, i)) % 2])

\* what an immediate instruction is to leave in rd
ImmRef(op, a, imm) ==
    CASE op = "addi" -> SignedAddRef(a, imm)
      [] op = "slti" -> Flag(SignedLessRef(a, imm))
      [] op = "andi" -> AndRef(a, imm)
      [] op = "ori"  -> OrRef(a, imm)
      [] op = "xori" -> XorRef(a, imm)

\* C17: given a sign-extended 12-bit immediate, addi leaves (rs1 + sext(imm))
\* mod 2^32 in rd, slti the signed comparison rs1 < sext(imm), and andi, ori
\* and xori the bitwise AND, OR and XOR of rs1 and sext(imm), computed from
\* the value rs1 held before the instruction even when rd is rs1.
C17_ImmediateOps ==
    /\ \A i \in Imm12s : sign_extend(i) = SextRef(i)
    /\ (last.op \in {"addi", "slti", "andi", "ori", "xori"} /\ last.rd # 0
            /\ last.imm \in {SextRef(i) : i \in Imm12s})
           => /\ ~last.panic
              /\ registers[last.rd]
                     = ImmRef(last.op, Operand(last.pre, last.rs1), last.imm)

\* C17 witness: slti with rd = rs1 = x1 holding 0x80000000 against the
\* immediate 0x800 (-2048) has left 1 in x1
C17_Witness ==
    /\ last.op = "slti" /\ last.rd = 1 /\ last.rs1 = 1
    /\ last.imm = sign_extend(U32(0, 2048))
    /\ last.imm = U32(H - 1, H - 2048)
    /\ last.pre[1] = U32(2^15, 0)
    /\ registers[1] = One

(***************************************************************************)
(* Further claims about the Memory.                                        *)
(***************************************************************************)
Loads == {"get_byte", "get_half", "get_word"}

\* the address a lies in the slab that starts at lo
InSlabAt(a, lo) == Hi(a) = Hi(lo) /\ Lo(a) - (Lo(a) % slabsize) = Lo(lo)

\* hi is the number lo + slabsize (which is below 2^32)
IsEndOf(hi, lo) ==
    /\ Hi(hi) = Hi(lo) + ((Lo(lo) + slabsize) \div H)
    /\ Lo(hi) = (Lo(lo) + slabsize) % H

\* hi is lo + slabsize modulo 2^32
IsWrappedEndOf(hi, lo) ==
    /\ Hi(hi) = (Hi(lo) + ((Lo(lo) + slabsize) \div H)) % H
    /\ Lo(hi) = (Lo(lo) + slabsize) % H

\* C18: every slab key (lo, hi) has lo a multiple of 1024 and hi = lo + 1024,
\* every slab buffer has exactly 1024 bytes, a slab exists only if an address
\* in its range has been written, no operation removes a slab, and the loads
\* create none.
C18_SlabInvariant ==
    /\ \A k \in DOMAIN slabs :
           /\ Lo(k[1]) % slabsize = 0
           /\ IsEndOf(k[2], k[1])
           /\ DOMAIN slabs[k] = 0..(slabsize - 1)
           /\ \E a \in written : InSlabAt(a, k[1])
    /\ DOMAIN mlast.pre \subseteq DOMAIN slabs
    /\ mlast.op \in Loads => slabs = mlast.pre

\* the invariant of C18 with the end of a slab taken modulo 2^32 (the part
\* of C18 the overflow does not touch)
SlabInvariantModulo ==
    /\ \A k \in DOMAIN slabs :
           /\ Lo(k[1]) % slabsize = 0
           /\ IsWrappedEndOf(k[2], k[1])
           /\ DOMAIN slabs[k] = 0..(slabsize - 1)
           /\ \E a \in written : InSlabAt(a, k[1])
    /\ DOMAIN mlast.pre \subseteq DOMAIN slabs
    /\ mlast.op \in Loads => slabs = mlast.pre

\* a load has run on a Memory that holds a slab, and has left it as it was
LoadKeptSlabs ==
    /\ steps = 2
    /\ mlast.op = "get_word" /\ mlast.index = U32(0, 1023)
    /\ mlast.pre # NoSlabs
    /\ slabs = mlast.pre

\* a slab holding the address a has been allocated: an address of the same
\* 1024-byte block has been stored to
Allocated(a) ==
    \E w \in written : Hi(w) = Hi(a) /\ Lo(w) \div slabsize = Lo(a) \div slabsize

\* the byte the slabs s hold for the address a, which lies in one of them
StoredAt(s, a) ==
    LET k == CHOOSE key \in DOMAIN s : InSlabAt(a, key[1])
    IN  s[k][Lo(a) % slabsize]

\* the number of bytes a load reads
Width(op) == CASE op = "get_byte" -> 1 [] op = "get_half" -> 2 [] op = "get_word" -> 4

\* C19: get_byte(a) returns None exactly when no slab holding a has been
\* allocated and Some(the byte stored) otherwise, and get_half(a) and
\* get_word(a) return None whenever the slab of one of their bytes is absent,
\* also when only one of the two slabs they straddle exists.
C19_SlabMiss ==
    /\ mlast.op = "get_byte" =>
           /\ ~mlast.panic
           /\ ~Allocated(mlast.index) => mlast.ret = None
           /\ Allocated(mlast.index) =>
                  mlast.ret = Some(StoredAt(slabs, mlast.index))
    /\ mlast.op \in {"get_half", "get_word"} =>
           /\ ~mlast.panic
           /\ (\E i \in 0..(Width(mlast.op) - 1) :
                   ~Allocated(AddrPlus(mlast.index, i)))
                  => mlast.ret = None
           /\ (\A i \in 0..(Width(mlast.op) - 1) :
                   Allocated(AddrPlus(mlast.index, i)))
                  => mlast.ret.some

\* what the loads report whenever they return (the part of C19 the panic
\* does not touch)
SlabMissWhenItReturns ==
    /\ (mlast.op = "get_byte" /\ ~mlast.panic) =>
           /\ ~Allocated(mlast.index) => mlast.ret = None
           /\ Allocated(mlast.index) =>
                  mlast.ret = Some(StoredAt(slabs, mlast.index))
    /\ (mlast.op \in {"get_half", "get_word"} /\ ~mlast.panic) =>
           /\ (\E i \in 0..(Width(mlast.op) - 1) :
                   ~Allocated(AddrPlus(mlast.index, i)))
                  => mlast.ret = None
           /\ (\A i \in 0..(Width(mlast.op) - 1) :
                   Allocated(AddrPlus(mlast.index, i)))
                  => mlast.ret.some

\* get_half(1023) has returned None with the slab of byte 1023 allocated and
\* the slab of byte 1024 absent
StraddleMissed ==
    /\ mlast.op = "get_half" /\ mlast.index = U32(0, 1023)
    /\ written = {U32(0, 1023)}
    /\ ~mlast.panic
    /\ mlast.ret = None

(***************************************************************************)
(* The computational instructions, with `set` to give the registers values *)
(* and byte stores of the Memory beside them.                              *)
(***************************************************************************)
FrameNext ==
    \/ Set(AllScope)
    \/ Addi(AllScope)
    \/ Slti(AllScope)
    \/ Sltiu(AllScope)
    \/ Andi(AllScope)
    \/ Ori(AllScope)
    \/ Xori(AllScope)
    \/ Slli(AllScope)
    \/ Srli(AllScope)
    \/ Srai(AllScope)
    \/ Lui(AllScope)
    \/ Auipc(AllScope)
    \/ Add(AllScope)
    \/ Sub(AllScope)
    \/ Slt(AllScope)
    \/ Sltu(AllScope)
    \/ And(AllScope)
    \/ Or(AllScope)
    \/ Xor(AllScope)
    \/ Sll(AllScope)
    \/ Srl(AllScope)
    \/ Sra(AllScope)
    \/ SetByte

FrameSpec == Init /\ [][FrameNext]_vars

Computational == ImmOps \cup RegOps \cup {"lui", "auipc"}

\* how a read of the address a in the slabs s ends: with the byte read, an
\* absent slab counting as 0, or in a panic
ReadOf(s, a) ==
    LET g == get_byte(s, overflow_checks, a)
    IN  IF g.panic THEN "panic" ELSE IF g.ret.some THEN g.ret.value ELSE 0

\* 1024 bytes of 0, what an absent slab reads as
AllZero == [d \in 0..(slabsize - 1) |-> 0]

\* C20: an immediate, register-register, lui or auipc instruction with rd in
\* 1..31 changes at most register rd, pc and every other register keeping
\* their values, and set_byte(a, v) leaves what is read at every address
\* other than a as it was, an absent slab reading as 0.
C20_Frame ==
    /\ (last.op \in Computational /\ last.rd \in 1..31) =>
           \A r \in 0..32 : r # last.rd => registers[r] = last.pre[r]
    /\ mlast.op = "set_byte" =>
           /\ \A b \in ProbeAddrs :
                  b # mlast.index => ReadOf(slabs, b) = ReadOf(mlast.pre, b)
           /\ \A k \in DOMAIN slabs :
                  LET before == IF k \in DOMAIN mlast.pre THEN mlast.pre[k]
                                ELSE AllZero
                      d == Lo(mlast.index) % slabsize
                  IN  IF InSlabAt(mlast.index, k[1])
                      THEN [slabs[k] EXCEPT ![d] = before[d]] = before
                      ELSE slabs[k] = before

\* C20 witness: with pc at 0xFFFFFFFC, addi has put 33 in x1 and left pc
\* where it was
C20_Witness ==
    /\ last.op = "addi" /\ last.rd = 1 /\ last.rs1 = 0 /\ last.imm = U32(0, 33)
    /\ last.pre[pc] = U32(H - 1, H - 4)
    /\ last.pre[1] = Zero
    /\ registers[1] = U32(0, 33)
    /\ registers[pc] = U32(H - 1, H - 4)

\* a second set_byte into a slab has left the byte stored before it in place
NeighbourKept ==
    /\ steps = 2
    /\ mlast.op = "set_byte" /\ mlast.index = U32(0, 102) /\ mlast.value = 1
    /\ written = {U32(0, 100), U32(0, 102)}
    /\ ReadOf(slabs, U32(0, 100)) = 239
    /\ ReadOf(slabs, U32(0, 102)) = 1
    /\ ReadOf(slabs, U32(0, 101)) = 0

\* an immediate shift by 33 has panicked, in a build with overflow checks,
\* and has left every register as it was
ShiftPanicKeptRegisters ==
    /\ last.op = "slli" /\ last.rd = 1 /\ last.rs1 = 1 /\ last.imm = U32(0, 33)
    /\ last.panic
    /\ last.pre[1] = U32(0, 33)
    /\ registers = last.pre

====
